---- MODULE Spec2Model ----
(***************************************************************************)
(* Model of iterations/v3-streamlit-supabase-mem0.py: one Streamlit        *)
(* session of the Mem0 chat assistant.  The state is st.session_state      *)
(* (authenticated, user, messages, logout_requested), the external mem0    *)
(* store, and the position of the script run that is handling the current  *)
(* UI event.  Every UI event (Login, Sign Up, Logout, Clear All Memories,  *)
(* chat input) is one action; the chat turn is split at its three external *)
(* calls, each of which may raise.                                         *)
(***************************************************************************)
EXTENDS Integers, Sequences, FiniteSets, TLC

\* ---------------------------------------------------------------- bounds
\* Chat turns started between two clears of the transcript.
MaxTurns == 2

\* ------------------------------------------------------ program constants
\* memory.search(..., limit=3)
SearchLimit == 3

\* ------------------------------------------------------------ value sets
Users == {"u1", "u2"}
\* st.session_state.user = None
None == "None"
\* texts typed into st.chat_input (never empty: `if user_input:`)
Inputs == {"a", "b"}
\* texts the completion service generates
Replies == {"r"}
\* memories that already exist in the store when the process starts: one
\* user has as many as a search returns, the other has none
OldFacts == <<"f1", "f2", "f3">>
InitStore == [u \in Users |-> IF u = "u1" THEN OldFacts ELSE <<>>]
\* outcome of an auth provider call: it raises, or returns a response whose
\* .user is None or a user
Raise == "raise"
AuthResponses == {Raise, None} \cup Users

VARIABLES
    authenticated,      \* st.session_state.authenticated
    user,               \* st.session_state.user (its id), or None
    messages,           \* st.session_state.messages: the transcript
    logout_requested,   \* st.session_state.logout_requested
    store,              \* mem0 store: user id -> sequence of memory texts
    pc,                 \* position of the script run handling the event
    user_id,            \* line 231: user_id of the running chat turn
    user_input,         \* line 242: text of the running chat turn
    chat_messages,      \* chat_with_memories: local list `messages`
    assistant_response, \* chat_with_memories: local `assistant_response`
    report,             \* what the run has shown the user (st.error, ...)
    calls,              \* external calls issued by the current event
    op,                 \* history: the handler of the current/last event
    outcome,            \* history: how that handler ended
    pre,                \* history: session state when that handler started
    hist,               \* history: chat turns since the transcript was last emptied
    cleared,            \* history: users cleared with no add since
    trace,              \* history: the steps of the current event, in order
    config,             \* the environment: which settings are usable
    cache,              \* st.cache_resource: which resources are cached
    built               \* history: successful constructions of each resource

vars == <<authenticated, user, messages, logout_requested, store, pc, user_id,
          user_input, chat_messages, assistant_response, report, calls, op,
          outcome, pre, hist, cleared, trace, config, cache, built>>

session == <<authenticated, user, messages, logout_requested>>
turnLocals == <<user_id, user_input, chat_messages, assistant_response>>
startupVars == <<config, cache, built>>

\* the cached resources: openai_client (line 78) and memory (line 79)
Resources == {"openai", "memory"}

\* ------------------------------------------------------------- helpers
Take(s, n) == SubSeq(s, 1, IF Len(s) < n THEN Len(s) ELSE n)

SeqToSet(s) == {s[i] : i \in 1..Len(s)}

Snapshot == [authenticated |-> authenticated, user |-> user,
             messages |-> messages, logout_requested |-> logout_requested,
             store |-> store]

\* {"role": "user", "content": user_input}   (lines 143, 246)
UserMessage(text) == [role |-> "user", content |-> <<text>>]

\* {"role": "assistant", "content": ...}     (lines 150, 256)
AssistantMessage(text) == [role |-> "assistant", content |-> <<text>>]

\* mutant: the memories are listed last-returned first
RECURSIVE memories_str_reversed(_)
memories_str_reversed(results) ==
    IF results = <<>> THEN <<>>
    ELSE memories_str_reversed(Tail(results)) \o <<"-", Head(results)>>

\* line 139: "\n".join(f"- {entry['memory']}" for entry in results)
RECURSIVE memories_str(_)
memories_str(results) ==
    IF results = <<>> THEN <<>>
    ELSE <<"-", Head(results)>> \o memories_str(Tail(results))

\* mutant: without memories no prompt is built
system_prompt_only_memories(results) ==
    IF results = <<>> THEN <<>>
    ELSE <<"You are a helpful AI assistant with memory.", "User Memories:">>
            \o memories_str(results)

\* line 142: the fixed instruction prefix followed by memories_str
system_prompt(results) ==
    <<"You are a helpful AI assistant with memory.", "User Memories:">>
        \o memories_str(results)

\* line 143: {"role": "system", "content": system_prompt}
SystemMessage(results) == [role |-> "system", content |-> system_prompt(results)]

\* ------------------------------------------------- the external mem0 store
\* memory.search(query, user_id, limit): the ranked memories of user_id
memory_search(st, uid, limit) == Take(st[uid], limit)

\* memory.add(messages, user_id): the store extracts facts from the user
\* messages it is given, or none (its extraction policy is its own)
memory_add(st, msgs, uid, extract) ==
    LET texts == {msgs[i].content[1] : i \in {j \in 1..Len(msgs) : msgs[j].role = "user"}}
        new == {t \in texts : t \notin SeqToSet(st[uid])}
    IN  IF extract /\ new # {}
        THEN [st EXCEPT ![uid] = Append(@, CHOOSE t \in new : TRUE)]
        ELSE st

\* memory.clear(user_id): deletes every record of user_id
memory_clear(st, uid) == [st EXCEPT ![uid] = <<>>]

Call(o, uid, msgs, limit) ==
    [op |-> o, user_id |-> uid, messages |-> msgs, limit |-> limit,
     bound |-> user, authenticated |-> authenticated]

\* --------------------------------------------------------- environment
\* SUPABASE_URL/SUPABASE_KEY present (lines 37-38), the OpenAI client's
\* settings usable (line 47), DATABASE_URL missing, rejected by
\* Memory.from_config, or usable (lines 53-74)
Configs ==
    [supabase : BOOLEAN, openai : BOOLEAN, database_url : {"missing", "invalid", "ok"}]

\* the class of an exception raised by a constructor of a library: the
\* try of lines 77-82 catches ValueError and nothing else
ExceptionClasses == {"ValueError", "other"}

\* mutant: the resource functions are not cached
cache_never_hits(k) == FALSE

\* lines 45, 49: @st.cache_resource returns the instance built before
cache_hit(k) == cache[k]

\* mutant: a chat turn builds its own resources
use_fresh_resources ==
    /\ cache' = [k \in Resources |-> TRUE]
    /\ built' = [k \in Resources |-> built[k] + 1]

\* lines 77-79 in a script run after a successful start: both calls return
\* the cached instance, or build it when the cache does not hold it
UseResources ==
    /\ cache' = [k \in Resources |-> TRUE]
    /\ built' = [k \in Resources |-> IF cache_hit(k) THEN built[k] ELSE built[k] + 1]

\* ------------------------------------------------------------------ Init
\* lines 157-165
Init ==
    /\ authenticated = FALSE
    /\ user = None
    /\ messages = <<>>
    /\ logout_requested = FALSE
    /\ store = InitStore
    /\ pc = "start"
    /\ user_id = None
    /\ user_input = ""
    /\ chat_messages = <<>>
    /\ assistant_response = ""
    /\ report = "none"
    /\ calls = <<>>
    /\ op = "none"
    /\ outcome = "none"
    /\ pre = Snapshot
    /\ hist = <<>>
    /\ cleared = {}
    /\ trace = <<>>
    /\ config \in Configs
    /\ cache = [k \in Resources |-> FALSE]
    /\ built = [k \in Resources |-> 0]

\* mutant: an event is handled while a script run is still under way
begin_any_time(name) ==
    /\ op' = name
    /\ pre' = Snapshot
    /\ calls' = <<>>

\* Start of the handling of a UI event: the previous run's output is gone.
Begin(name) ==
    /\ pc = "idle"
    /\ op' = name
    /\ pre' = Snapshot
    /\ calls' = <<>>


\* ------------------------------------------------- authentication functions
\* lines 108-121.  resp is what supabase_client.auth.sign_in_with_password
\* does: raise, or return a response whose user is None or a user.
sign_in(resp) ==
    IF resp = Raise
    THEN \* except Exception: st.error("Error signing in: ..."); return None
         /\ report' = "error_signing_in"
         /\ pc' = "idle"
         /\ UNCHANGED <<authenticated, user, messages>>
    ELSE IF resp # None
    THEN \* lines 114-117: both fields, then st.rerun()
         /\ authenticated' = TRUE
         /\ user' = resp
         /\ UNCHANGED messages
         /\ report' = "none"
         /\ pc' = "rerun"
    ELSE \* no user in the response: return response
         /\ report' = "none"
         /\ pc' = "idle"
         /\ UNCHANGED <<authenticated, user, messages>>

\* mutant: any response that is not an error logs the caller in
sign_up_any_response(resp) ==
    IF resp = Raise
    THEN /\ report' = "error_signing_up"
         /\ pc' = "idle"
         /\ UNCHANGED <<authenticated, user, messages>>
    ELSE /\ authenticated' = TRUE
         /\ user' = resp
         /\ UNCHANGED messages
         /\ report' = "none"
         /\ pc' = "rerun"

\* lines 87-106 and the caller's lines 204-206 (the st.success of line 206
\* is behind the st.rerun() of line 101 and is never shown)
sign_up(resp) ==
    IF resp = Raise
    THEN /\ report' = "error_signing_up"
         /\ pc' = "idle"
         /\ UNCHANGED <<authenticated, user, messages>>
    ELSE IF resp # None
    THEN /\ authenticated' = TRUE
         /\ user' = resp
         /\ UNCHANGED messages
         /\ report' = "none"
         /\ pc' = "rerun"
    ELSE /\ report' = "none"
         /\ pc' = "idle"
         /\ UNCHANGED <<authenticated, user, messages>>

\* mutant: signing out also empties the transcript
sign_out_clears_transcript(raises) ==
    IF raises
    THEN /\ report' = "error_signing_out"
         /\ pc' = "rerun"
         /\ UNCHANGED <<authenticated, user, messages, logout_requested>>
    ELSE /\ authenticated' = FALSE
         /\ user' = None
         /\ messages' = <<>>
         /\ logout_requested' = TRUE
         /\ report' = "none"
         /\ pc' = "rerun"

\* mutant: the flag is reset before the provider call and the user after it
sign_out_flag_first(raises) ==
    /\ authenticated' = FALSE
    /\ user' = IF raises THEN user ELSE None
    /\ logout_requested' = (logout_requested \/ ~raises)
    /\ report' = IF raises THEN "error_signing_out" ELSE "none"
    /\ pc' = "rerun"
    /\ UNCHANGED messages

\* lines 123-131.  raises: supabase_client.auth.sign_out() raises.
\* sign_out runs as the Logout button's callback, before the script run.
sign_out(raises) ==
    IF raises
    THEN /\ report' = "error_signing_out"
         /\ pc' = "rerun"
         /\ UNCHANGED <<authenticated, user, messages, logout_requested>>
    ELSE /\ authenticated' = FALSE
         /\ user' = None
         /\ UNCHANGED messages
         /\ logout_requested' = TRUE
         /\ report' = "none"
         /\ pc' = "rerun"

\* history: an auth call's outcome is what the provider did
AuthOutcome(resp) == resp

\* --------------------------------------------------------- sidebar (UI)
\* line 180: the Login / Sign Up tabs are rendered
SidebarAnonymous == ~authenticated

\* mutant: the buttons are rendered whoever looks at the sidebar
sidebar_always == TRUE

\* lines 211-213: the Logout and Clear All Memories buttons are rendered
SidebarLoggedIn == authenticated /\ user # None

\* lines 187-193: the Login button
Login ==
    /\ Begin("sign_in")
    /\ SidebarAnonymous
    /\ \E filled \in BOOLEAN, resp \in AuthResponses :
        IF filled
        THEN /\ sign_in(resp)
             /\ outcome' = AuthOutcome(resp)
        ELSE \* st.warning("Please enter both email and password.")
             /\ report' = "warning"
             /\ outcome' = "not_called"
             /\ pc' = "idle"
             /\ UNCHANGED <<authenticated, user, messages>>
    /\ UseResources
    /\ trace' = <<>>
    /\ UNCHANGED <<logout_requested, store, turnLocals, hist, cleared, config>>

\* lines 200-210: the Sign Up button
SignUp ==
    /\ Begin("sign_up")
    /\ SidebarAnonymous
    /\ \E filled \in BOOLEAN, resp \in AuthResponses :
        IF filled
        THEN /\ sign_up(resp)
             /\ outcome' = AuthOutcome(resp)
        ELSE \* st.warning("Please fill in all fields.")
             /\ report' = "warning"
             /\ outcome' = "not_called"
             /\ pc' = "idle"
             /\ UNCHANGED <<authenticated, user, messages>>
    /\ UseResources
    /\ trace' = <<>>
    /\ UNCHANGED <<logout_requested, store, turnLocals, hist, cleared, config>>

\* line 215: st.button("Logout", on_click=sign_out)
Logout ==
    /\ Begin("sign_out")
    /\ SidebarLoggedIn
    /\ \E raises \in BOOLEAN :
        /\ sign_out(raises)
        /\ outcome' = IF raises THEN Raise ELSE "ok"
    /\ trace' = <<>>
    /\ UNCHANGED <<store, turnLocals, hist, cleared, startupVars>>

\* lines 157-170: the top of a script run that follows a callback or an
\* st.rerun(); a set logout flag is reset (and the script run once more)
ScriptTop ==
    /\ pc = "rerun"
    /\ logout_requested' = FALSE
    /\ pc' = "idle"
    /\ UseResources
    /\ UNCHANGED <<authenticated, user, messages, store, turnLocals, report,
                   calls, op, outcome, pre, hist, cleared, trace, config>>


\* ------------------------------------------------------- clear memories
\* mutant: the transcript is emptied before the store is cleared
clear_transcript_first(raises) ==
    /\ calls' = <<Call("clear", user, <<>>, 0)>>
    /\ messages' = <<>>
    /\ hist' = <<>>
    /\ IF raises
       THEN /\ report' = "exception"
            /\ pc' = "idle"
            /\ UNCHANGED <<store, cleared>>
       ELSE /\ store' = memory_clear(store, user)
            /\ cleared' = cleared \cup {user}
            /\ report' = "none"
            /\ pc' = "rerun"

\* lines 223-227.  raises: memory.clear raises (nothing catches it: the
\* script run ends there and Streamlit shows the exception).
clear_memories(raises) ==
    /\ calls' = <<Call("clear", user, <<>>, 0)>>
    /\ IF raises
       THEN /\ report' = "exception"
            /\ pc' = "idle"
            /\ UNCHANGED <<store, messages, hist, cleared>>
       ELSE /\ store' = memory_clear(store, user)
            /\ messages' = <<>>
            /\ hist' = <<>>
            /\ cleared' = cleared \cup {user}
            \* st.success(...) is discarded by the st.rerun() of line 227
            /\ report' = "none"
            /\ pc' = "rerun"

\* line 223: the Clear All Memories button
ClearAllMemories ==
    /\ pc = "idle"
    /\ SidebarLoggedIn
    /\ op' = "clear"
    /\ pre' = Snapshot
    /\ \E raises \in BOOLEAN :
        /\ clear_memories(raises)
        /\ outcome' = IF raises THEN Raise ELSE "ok"
    /\ UseResources
    /\ trace' = <<>>
    /\ UNCHANGED <<authenticated, user, logout_requested, turnLocals, config>>

\* ------------------------------------------------------------- chat turn
\* line 230: the main chat interface is rendered
MainChat == authenticated /\ user # None

\* mutant: the turn runs for a fixed user, whoever is bound to the session
fixed_user_id == "u1"

\* line 231: user_id = st.session_state.user.id
session_user_id == user

\* line 246: st.session_state.messages.append({"role": "user", ...})
append_user(transcript, text) == Append(transcript, UserMessage(text))

\* mutant: the transcript is extended with chat_with_memories' own list
extend_with_chat_messages(transcript, text) ==
    SubSeq(transcript, 1, Len(transcript) - 1) \o chat_messages

\* mutant: the assistant message is put in front of the turn's user message
insert_assistant(transcript, text) ==
    SubSeq(transcript, 1, Len(transcript) - 1)
        \o <<AssistantMessage(text), transcript[Len(transcript)]>>

\* line 256: st.session_state.messages.append({"role": "assistant", ...})
append_assistant(transcript, text) == Append(transcript, AssistantMessage(text))

\* history: the record of a chat turn
Turn(uid, text, reply, result) ==
    [user_id |-> uid, input |-> text, reply |-> reply, outcome |-> result]

EndTurn(result) ==
    [hist EXCEPT ![Len(hist)] = Turn(@.user_id, @.input, assistant_response, result)]

\* lines 242-250: a text is submitted in st.chat_input; the user message
\* is appended to the transcript before chat_with_memories is called
ChatInput ==
    /\ Begin("chat")
    /\ MainChat
    /\ Len(hist) < MaxTurns
    /\ \E text \in Inputs :
        /\ user_id' = session_user_id
        /\ user_input' = text
        /\ messages' = append_user(messages, text)
        /\ hist' = Append(hist, Turn(user, text, "", "running"))
    /\ pc' = "search"
    /\ report' = "none"
    /\ outcome' = "running"
    /\ UseResources
    /\ trace' = <<"append_user">>
    /\ UNCHANGED <<authenticated, user, logout_requested, store, chat_messages,
                   assistant_response, cleared, config>>

\* An exception leaves chat_with_memories and the script run: nothing
\* catches it, Streamlit shows it, and lines 256-260 are not reached.
Abort(where) ==
    /\ pc' = "idle"
    /\ report' = "exception"
    /\ outcome' = where
    /\ hist' = EndTurn("failed")
    /\ user_id' = None
    /\ user_input' = ""
    /\ chat_messages' = <<>>
    /\ assistant_response' = ""

\* lines 138-143: memory.search, memories_str, system_prompt, messages
Search ==
    /\ pc = "search"
    /\ calls' = Append(calls, Call("search", user_id, <<>>, SearchLimit))
    /\ \E raises \in BOOLEAN :
        IF raises
        THEN Abort("search_raised")
        ELSE /\ chat_messages' =
                    <<SystemMessage(memory_search(store, user_id, SearchLimit)),
                      UserMessage(user_input)>>
             /\ pc' = "complete"
             /\ UNCHANGED <<user_id, user_input, assistant_response, report,
                            outcome, hist>>
    /\ trace' = Append(trace, "search")
    /\ UNCHANGED <<session, store, op, pre, cleared, startupVars>>

\* lines 145-147: openai_client.chat.completions.create(model, messages)
Complete ==
    /\ pc = "complete"
    /\ calls' = Append(calls, Call("completion", user_id, chat_messages, 0))
    /\ \E raises \in BOOLEAN :
        IF raises
        THEN Abort("completion_raised")
        ELSE /\ assistant_response' \in Replies
             /\ pc' = "add"
             /\ UNCHANGED <<user_id, user_input, chat_messages, report, outcome, hist>>
    /\ trace' = Append(trace, "completion")
    /\ UNCHANGED <<session, store, op, pre, cleared, startupVars>>

\* lines 150-151: messages.append(assistant); memory.add(messages, user_id)
Add ==
    /\ pc = "add"
    /\ LET sent == Append(chat_messages, AssistantMessage(assistant_response))
       IN  /\ calls' = Append(calls, Call("add", user_id, sent, 0))
           /\ cleared' = cleared \ {user_id}
           /\ \E raises \in BOOLEAN :
                IF raises
                THEN /\ Abort("add_raised")
                     /\ UNCHANGED store
                ELSE /\ chat_messages' = sent
                     /\ \E extract \in BOOLEAN :
                            store' = memory_add(store, sent, user_id, extract)
                     /\ pc' = "return"
                     /\ UNCHANGED <<user_id, user_input, assistant_response,
                                    report, outcome, hist>>
    /\ trace' = Append(trace, "add")
    /\ UNCHANGED <<session, op, pre, startupVars>>

\* lines 153, 253-260: return assistant_response; the assistant message is
\* appended to the transcript
Return ==
    /\ pc = "return"
    /\ messages' = append_assistant(messages, assistant_response)
    /\ hist' = EndTurn("ok")
    /\ outcome' = "ok"
    /\ pc' = "idle"
    /\ user_id' = None
    /\ user_input' = ""
    /\ chat_messages' = <<>>
    /\ assistant_response' = ""
    /\ trace' = trace \o <<"return", "append_assistant">>
    /\ UNCHANGED <<authenticated, user, logout_requested, store, report, calls,
                   op, pre, cleared, startupVars>>

\* -------------------------------------------------------------- startup
\* lines 36-83, the first script run of a session.  cls is the class of
\* the exception when a library constructor raises.
Startup ==
    /\ pc = "start"
    /\ \E cls \in ExceptionClasses :
        LET openai_ok == cache_hit("openai") \/ config.openai
            memory_ok == cache_hit("memory") \/ config.database_url = "ok"
        IN  IF ~config.supabase
            THEN \* line 39 raises outside any try: Streamlit shows it
                 /\ report' = "exception"
                 /\ pc' = "stopped"
                 /\ UNCHANGED <<cache, built>>
            ELSE IF ~openai_ok
            THEN \* line 78: OpenAI() raises; line 80 catches a ValueError
                 /\ report' = IF cls = "ValueError" THEN "none" ELSE "exception"
                 /\ pc' = "stopped"
                 /\ UNCHANGED <<cache, built>>
            ELSE /\ cache' = [cache EXCEPT !["openai"] = TRUE, !["memory"] = memory_ok]
                 /\ built' = [k \in Resources |->
                                IF cache_hit(k) \/ (k = "memory" /\ ~memory_ok)
                                THEN built[k] ELSE built[k] + 1]
                 /\ IF memory_ok
                    THEN /\ report' = "none"
                         /\ pc' = "idle"
                    ELSE IF config.database_url = "missing"
                    THEN \* lines 54-57, 80-82: st.error, ValueError, st.stop()
                         /\ report' = "config_error"
                         /\ pc' = "stopped"
                    ELSE \* line 74: Memory.from_config raises
                         /\ report' = IF cls = "ValueError" THEN "none" ELSE "exception"
                         /\ pc' = "stopped"
    /\ UNCHANGED <<session, store, turnLocals, calls, op, outcome, pre, hist,
                   cleared, trace, config>>

\* lines 157-165 in another session of the same process (the page is
\* loaded again): the session state starts empty, the resource cache and
\* the store are the process's
NewSession ==
    /\ pc \in {"idle", "stopped"}
    /\ pc' = "start"
    /\ authenticated' = FALSE
    /\ user' = None
    /\ messages' = <<>>
    /\ logout_requested' = FALSE
    /\ report' = "none"
    /\ calls' = <<>>
    /\ op' = "none"
    /\ outcome' = "none"
    /\ pre' = [authenticated |-> FALSE, user |-> None, messages |-> <<>>,
               logout_requested |-> FALSE, store |-> store]
    /\ hist' = <<>>
    /\ trace' = <<>>
    /\ UNCHANGED <<store, turnLocals, cleared, config, cache, built>>

\* ------------------------------------------------------------------ Spec
Next ==
    \/ Startup
    \/ NewSession
    \/ Login
    \/ SignUp
    \/ Logout
    \/ ScriptTop
    \/ ClearAllMemories
    \/ ChatInput
    \/ Search
    \/ Complete
    \/ Add
    \/ Return

Spec == Init /\ [][Next]_vars

\* sign_out called as a plain function, whatever the sidebar shows: the
\* specification under which its contract while Anonymous is examined.
SignOutCall ==
    /\ Begin("sign_out")
    /\ ~SidebarLoggedIn
    /\ \E raises \in BOOLEAN :
        /\ sign_out(raises)
        /\ outcome' = IF raises THEN Raise ELSE "ok"
    /\ trace' = <<>>
    /\ UNCHANGED <<store, turnLocals, hist, cleared, startupVars>>

NextApi == Next \/ SignOutCall

SpecApi == Init /\ [][NextApi]_vars


\* =================================================================== claims

FailedOutcomes == {"search_raised", "completion_raised", "add_raised"}

AllOk == \A i \in 1..Len(hist) : hist[i].outcome = "ok"

\* the transcript that the turns of h, all successful, produce
RECURSIVE Flatten(_)
Flatten(h) ==
    IF h = <<>> THEN <<>>
    ELSE <<UserMessage(Head(h).input), AssistantMessage(Head(h).reply)>>
            \o Flatten(Tail(h))

\* C1: when every chat turn since the transcript was last empty has completed
\* successfully, the transcript has exactly two messages per turn: each
\* turn's user message immediately followed by its assistant message, the
\* turns in the order they occurred.
C1_TwoMessagesPerTurn ==
    AllOk => /\ Len(messages) = 2 * Len(hist)
             /\ messages = Flatten(hist)

C1_Witness ==
    /\ pc = "idle"
    /\ AllOk
    /\ Len(hist) = 2
    /\ hist[1].input # hist[2].input

\* C2: a chat turn that failed at one of its three external calls leaves
\* the transcript as it was before the turn started.
C2_FailedTurnKeepsTranscript ==
    (op = "chat" /\ outcome \in FailedOutcomes) => messages = pre.messages

StoreCalls == {"search", "add", "clear"}

CallsScoped ==
    \A i \in 1..Len(calls) :
        calls[i].op \in StoreCalls =>
            /\ calls[i].authenticated
            /\ calls[i].bound \in Users
            /\ calls[i].user_id = calls[i].bound

StoreFrame ==
    \A v \in Users : store'[v] # store[v] => (authenticated /\ user = v)

\* C3: every memory search, add and clear call is issued with the id of the
\* user bound to the session, none is issued while the session is
\* Anonymous, and a call changes the records of the bound user only.
C3_StoreCallsScoped == [] CallsScoped /\ [][StoreFrame]_vars

C3_Witness ==
    /\ op = "chat"
    /\ outcome = "ok"
    /\ user = "u2"
    /\ Len(calls) = 3
    /\ calls[3].op = "add"
    /\ store["u2"] # pre.store["u2"]
    /\ store["u1"] # <<>>

\* C4: the authenticated flag is true exactly when a user is bound to the
\* session, whatever sign_up, sign_in and sign_out calls were made and
\* whichever of them raised.
C4_FlagIffUser == authenticated <=> (user # None)

C4_Witness ==
    /\ op = "sign_out"
    /\ outcome = Raise
    /\ authenticated
    /\ user \in Users


\* C5: sign_out called while the session is already Anonymous changes no
\* part of the session state and reports no error.
C5_SignOutWhileAnonymousIsNoOp ==
    (op = "sign_out" /\ ~pre.authenticated) =>
        /\ Snapshot = pre
        /\ report # "error_signing_out"

AuthCalls == {"sign_in", "sign_up"}

\* C6: after sign_in or sign_up the session is Authenticated(user) exactly
\* when the provider returned that user; when it raised or returned no
\* user the session is Anonymous, and when it raised the error is reported.
C6_AuthenticatedOnlyWithUser ==
    op \in AuthCalls =>
        /\ ~pre.authenticated
        /\ outcome \in Users => (authenticated /\ user = outcome)
        /\ outcome \notin Users => (~authenticated /\ user = None)
        /\ outcome = Raise =>
              report = (IF op = "sign_in" THEN "error_signing_in"
                                          ELSE "error_signing_up")

C6_Witness ==
    /\ op = "sign_up"
    /\ outcome = Raise
    /\ report = "error_signing_up"
    /\ ~authenticated
    /\ user = None

SignCalls == {"sign_in", "sign_up", "sign_out"}

TranscriptWriters == {"chat", "clear"}

\* a step inside one session: every step but the start of another session,
\* whose transcript is another st.session_state.messages
SameSession == pc' # "start"

\* C7: sign_up, sign_in and sign_out leave the transcript as it was (a
\* successful sign_out included), and every step of a session that changes
\* its transcript belongs to a chat turn or to clear_memories.
C7_AuthKeepsTranscript ==
    /\ [](op \in SignCalls => messages = pre.messages)
    /\ [][(SameSession /\ messages' # messages) =>
              op' \in TranscriptWriters]_vars

C7_Witness ==
    /\ op = "sign_out"
    /\ outcome = "ok"
    /\ pre.authenticated
    /\ ~authenticated
    /\ user = None
    /\ messages # <<>>

\* C8: after clear_memories has completed the transcript is empty and,
\* until an add for that user, a search for that user returns nothing; when
\* the store's clear raised, the transcript is what it was.
C8_ClearEmptiesStoreThenTranscript ==
    /\ (op = "clear" /\ outcome = "ok") =>
            (messages = <<>> /\ pre.user \in cleared)
    /\ \A u \in cleared : memory_search(store, u, SearchLimit) = <<>>
    /\ (op = "clear" /\ outcome = Raise) =>
            messages = pre.messages

C8_Witness ==
    /\ op = "clear"
    /\ outcome = "ok"
    /\ pc = "idle"
    /\ pre.messages # <<>>
    /\ pre.store[user] # <<>>
    /\ store[user] = <<>>

\* C9: clear_memories runs only in a session that is Authenticated(user),
\* and the authenticated flag and the bound user are the same after it.
C9_ClearKeepsAuth ==
    op = "clear" =>
        /\ pre.authenticated
        /\ pre.user \in Users
        /\ authenticated = pre.authenticated
        /\ user = pre.user

C9_Witness ==
    /\ op = "clear"
    /\ pc = "idle"
    /\ authenticated
    /\ user \in Users
    /\ outcome \in {"ok", Raise}
    /\ pre.user = user

TranscriptRoles == {"user", "assistant"}

\* C10: the transcript holds only messages of role user or assistant; the
\* system message built for the completion call is never in it.
C10_NoSystemMessageInTranscript ==
    \A i \in 1..Len(messages) : messages[i].role \in TranscriptRoles

C10_Witness ==
    /\ op = "chat"
    /\ outcome = "ok"
    /\ Len(messages) >= 2
    /\ \E i \in 1..Len(calls) :
          /\ calls[i].op = "completion"
          /\ calls[i].messages[1].role = "system"


IsPrefix(s, t) == Len(s) <= Len(t) /\ SubSeq(t, 1, Len(s)) = s

\* C11: the transcript of a session is append-only between clears: every
\* step of the session that is not clear_memories leaves the messages
\* already in the transcript where they are (the old transcript is a prefix
\* of the new one).
C11_AppendOnlyBetweenClears ==
    [][(SameSession /\ op' # "clear") => IsPrefix(messages, messages')]_vars

C11_Witness ==
    /\ op = "chat"
    /\ outcome = "ok"
    /\ Len(pre.messages) >= 2
    /\ Len(messages) = Len(pre.messages) + 2
    /\ SubSeq(messages, 1, Len(pre.messages)) = pre.messages

\* the completion call of the current turn, when it has been made
CompletionCalls == {i \in 1..Len(calls) : calls[i].op = "completion"}

ZeroMemories ==
    \E i \in CompletionCalls :
        calls[i].messages[1].content =
            <<"You are a helpful AI assistant with memory.", "User Memories:">>

\* C12: a chat turn whose search returns no memory is not an error: the
\* grounding message is built with an empty memory section, the completion
\* call is made with it, and when the turn ends well it has appended its
\* two messages and called add.
C12_ZeroMemoriesIsNoError ==
    /\ (pc = "complete" /\ store[user_id] = <<>>) =>
            /\ report # "exception"
            /\ chat_messages[1].role = "system"
            /\ chat_messages[1].content =
                 <<"You are a helpful AI assistant with memory.", "User Memories:">>
            /\ chat_messages[2] = [role |-> "user", content |-> <<user_input>>]
    /\ (pc = "add" /\ store[user_id] = <<>>) => ZeroMemories
    /\ (op = "chat" /\ outcome = "ok" /\ ZeroMemories) =>
            /\ Len(messages) = Len(pre.messages) + 2
            /\ messages[Len(messages) - 1].role = "user"
            /\ messages[Len(messages)].role = "assistant"
            /\ \E i \in 1..Len(calls) : calls[i].op = "add"

C12_Witness ==
    /\ op = "chat"
    /\ outcome = "ok"
    /\ pc = "idle"
    /\ ZeroMemories
    /\ pre.store[user] = <<>>

\* C13: every error raised during a chat turn produces a user-visible
\* report, and after it the authenticated flag, the bound user and the
\* transcript are what they were before the turn.
C13_TurnErrorKeepsSession ==
    (op = "chat" /\ outcome \in FailedOutcomes) =>
        /\ report = "exception"
        /\ authenticated = pre.authenticated
        /\ user = pre.user
        /\ messages = pre.messages

AddCalls == {i \in 1..Len(calls) : calls[i].op = "add"}

\* C15: in a successful chat turn add is called once, for the bound user,
\* with exactly two messages: the turn's user message, then its assistant
\* message, and no system message.
C15_AddGetsUserAndAssistant ==
    (op = "chat" /\ outcome = "ok") =>
        /\ Cardinality(AddCalls) = 1
        /\ \A i \in AddCalls :
            /\ calls[i].user_id = user
            /\ Len(calls[i].messages) = 2
            /\ calls[i].messages[1].role = "user"
            /\ calls[i].messages[2].role = "assistant"


Min(a, b) == IF a < b THEN a ELSE b

\* C17: the completion request of a turn is exactly two messages, the
\* system-grounding message and then the current user message, whatever the
\* transcript holds; the grounding message lists the texts that a search
\* with limit 3 returned, in the order the store returned them.
C17_RequestIsGroundingAndUserMessage ==
    pc = "add" =>
        LET c == calls[Len(calls)]
            mems == store[user_id]
            n == Min(Len(mems), 3)
            content == c.messages[1].content
        IN  /\ calls[1].op = "search"
            /\ calls[1].limit = 3
            /\ calls[1].user_id = user_id
            /\ c.op = "completion"
            /\ Len(c.messages) = 2
            /\ c.messages[1].role = "system"
            /\ Len(content) = 2 + 2 * n
            /\ \A k \in 1..n : content[2 * k + 1] = "-" /\ content[2 * k + 2] = mems[k]
            /\ c.messages[2] = [role |-> "user", content |-> <<user_input>>]

C17_Witness ==
    /\ pc = "add"
    /\ Len(store[user_id]) > 3
    /\ Len(messages) >= 3
    /\ Len(calls[Len(calls)].messages) = 2

TurnSteps == {"search", "complete", "add", "return"}

RunningTurns == {i \in 1..Len(hist) : hist[i].outcome = "running"}

RECURSIVE Produced(_)
Produced(h) ==
    IF h = <<>> THEN <<>>
    ELSE (IF Head(h).outcome = "ok"
          THEN <<UserMessage(Head(h).input), AssistantMessage(Head(h).reply)>>
          ELSE <<UserMessage(Head(h).input)>>)
         \o Produced(Tail(h))

\* C20 (as claimed): whenever the session is Authenticated(u), every
\* message in the transcript was produced by a turn run while u was the
\* bound user.
C20_TranscriptOnlyOfBoundUser ==
    authenticated => \A i \in 1..Len(hist) : hist[i].user_id = user

\* C20 (amended): every message in the transcript was produced by a chat
\* turn run since the last clear_memories while some user was bound to
\* the session (the user bound now or one bound earlier): signing out and
\* in does not empty the transcript.
C20_TranscriptOfAllBoundUsers ==
    /\ messages = Produced(hist)
    /\ \A i \in 1..Len(hist) : hist[i].user_id \in Users

C20_Witness ==
    /\ pc = "idle"
    /\ authenticated
    /\ user = "u2"
    /\ messages # <<>>
    /\ hist # <<>>
    /\ \A i \in 1..Len(hist) : hist[i].user_id = "u1"


ConfigBad ==
    \/ ~config.supabase
    \/ ~config.openai
    \/ config.database_url # "ok"

Fresh ==
    /\ op = "none"
    /\ ~authenticated
    /\ user = None
    /\ messages = <<>>
    /\ calls = <<>>

\* With a setting missing or invalid every session ends in its first script
\* run: no sign_in, sign_up, chat turn or clear_memories is ever handled.
StartupFailureHalts == ConfigBad => (pc \in {"start", "stopped"} /\ Fresh)

\* C14: when required configuration is missing or invalid, construction
\* fails with a reported configuration error and the session does nothing
\* further.
C14_ConfigFailureReportedAndHalts ==
    (ConfigBad /\ pc # "start") =>
        /\ pc = "stopped"
        /\ Fresh
        /\ report \in {"config_error", "exception"}

\* C16: within a successful chat turn the steps occur in this order: memory
\* search, completion call, append of the user message, append of the
\* assistant message, memory add, return.
C16_StepsInClaimedOrder ==
    (op = "chat" /\ outcome = "ok") =>
        trace = <<"search", "completion", "append_user", "append_assistant",
                  "add", "return">>

\* C18: the completion client and the memory store adapter are each built
\* at most once in the process: once built they are cached, and no later
\* script run, chat turn or session builds another.
C18_ResourcesBuiltOnce ==
    \A k \in Resources :
        /\ built[k] <= 1
        /\ cache[k] <=> (built[k] = 1)

C18_Witness ==
    /\ pc = "idle"
    /\ op = "none"
    /\ store # InitStore
    /\ \A k \in Resources : cache[k] /\ built[k] = 1

====
